---- MODULE Spec2Model ----
(***************************************************************************)
(* Catalog domain of RaulAJaimes/eccomerce: the Price value object, the    *)
(* Product entity, the Prisma repository adapter and the GetProductById    *)
(* use case.                                                               *)
(*                                                                         *)
(* Strings are sequences of one-character strings, so that length, trim    *)
(* and endsWith are computed as the code computes them.  Money amounts are *)
(* integers in cents; a raw (unrounded) amount is a fraction num/den of a  *)
(* currency unit, and 0/0 is the number NaN.  Arithmetic on the finite     *)
(* amounts is exact: the amounts of the model are ones on which the        *)
(* floating-point product amount * 100 rounds as the exact product does.   *)
(* Dates are integers read from the clock `now`.  Arrays are objects on a  *)
(* heap and are referred to by address.                                    *)
(***************************************************************************)
EXTENDS Integers, Sequences, FiniteSets, TLC

\* ------------------------------------------------------------------------
\* Bounds of the model
\* ------------------------------------------------------------------------
MaxStock == 2
MaxTime == 1
MaxImages == 2
MaxFindCalls == 3
MaxPriceOps == 3

\* ------------------------------------------------------------------------
\* Strings
\* ------------------------------------------------------------------------
Rep(c, n) == [i \in 1..n |-> c]

Whitespace == {" ", "\t"}

\* String.prototype.trim
Trim(s) ==
  IF \A i \in 1..Len(s) : s[i] \in Whitespace THEN <<>>
  ELSE LET first == CHOOSE i \in 1..Len(s) :
                      s[i] \notin Whitespace /\
                      \A j \in 1..(i - 1) : s[j] \in Whitespace
           last_ == CHOOSE i \in 1..Len(s) :
                      s[i] \notin Whitespace /\
                      \A j \in (i + 1)..Len(s) : s[j] \in Whitespace
       IN  SubSeq(s, first, last_)

LowerChar(c) ==
  CASE c = "A" -> "a" [] c = "B" -> "b" [] c = "G" -> "g" [] c = "J" -> "j"
    [] c = "K" -> "k" [] c = "N" -> "n" [] c = "P" -> "p" [] OTHER -> c

\* String.prototype.toLowerCase
ToLowerCase(s) == [i \in 1..Len(s) |-> LowerChar(s[i])]

\* String.prototype.endsWith
EndsWith(s, suffix) ==
  /\ Len(suffix) <= Len(s)
  /\ SubSeq(s, Len(s) - Len(suffix) + 1, Len(s)) = suffix

Undefined == "undefined"

\* ------------------------------------------------------------------------
\* Price (value object)
\* ------------------------------------------------------------------------
MaxPrice == 1000000

validCurrencies == {"USD", "EUR", "COP"}

NoPrice == [amount |-> -1, currency |-> "none"]

\* the amount NaN of a Price (a `number` that is no cents value)
NaN == -2

\* the number num/den is NaN
IsNaN(num, den) == den = 0

RECURSIVE GCD(_, _)
GCD(a, b) == IF b = 0 THEN a ELSE GCD(b, a % b)

\* Math.round(amount * 100) for the raw amount num/den (den > 0), in cents
RoundCents(num, den) ==
  100 * (num \div den) + ((200 * (num % den) + den) \div (2 * den))

\* private constructor(amount, currency = 'USD'), amount = num/den; every
\* comparison with NaN is false, and Math.round(NaN * 100) / 100 is NaN
PriceNew(num, den, currency) ==
  LET cur == IF currency = Undefined THEN "USD" ELSE currency
  IN  IF ~IsNaN(num, den) /\ num < 0
        THEN [err |-> "Price cannot be negative", val |-> NoPrice]
      ELSE IF cur \notin validCurrencies
        THEN [err |-> "Currency is not supported", val |-> NoPrice]
      ELSE IF ~IsNaN(num, den) /\ num > MaxPrice * den
        THEN [err |-> "Price cannot exceed 1,000,000", val |-> NoPrice]
      ELSE [err |-> "none",
            val |-> [amount |-> IF IsNaN(num, den) THEN NaN
                                ELSE RoundCents(num, den),
                     currency |-> cur]]

PriceCreate(num, den, currency) == PriceNew(num, den, currency)

PriceFromPrimitives(cents, currency) ==
  IF cents = NaN THEN PriceNew(0, 0, currency)
  ELSE PriceNew(cents, 100, currency)

\* add without the currency check
PriceAdd_NoCurrencyCheck(this, other) ==
  IF this.amount = NaN \/ other.amount = NaN
    THEN PriceNew(0, 0, this.currency)
    ELSE PriceNew(this.amount + other.amount, 100, this.currency)

\* add(other)
PriceAdd(this, other) ==
  IF this.currency # other.currency
    THEN [err |-> "Cannot add prices with different currencies",
          val |-> NoPrice]
  ELSE IF this.amount = NaN \/ other.amount = NaN
    THEN PriceNew(0, 0, this.currency)
  ELSE PriceNew(this.amount + other.amount, 100, this.currency)

\* multiply(factor), factor = fnum/fden
PriceMultiply(price, fnum, fden) ==
  IF ~IsNaN(fnum, fden) /\ fnum <= 0
    THEN [err |-> "Multiplication factor must be positive", val |-> NoPrice]
  ELSE IF IsNaN(fnum, fden) \/ price.amount = NaN
    THEN PriceNew(0, 0, price.currency)
  ELSE PriceNew(price.amount * fnum, 100 * fden, price.currency)

\* the raw amount (cents * a) / (100 * b), with a/b in lowest terms
PriceScaled(price, a, b) ==
  LET g == GCD(a, b)
  IN  PriceNew(price.amount * (a \div g), 100 * (b \div g), price.currency)

\* applyDiscount(percentage), percentage = pnum/pden
PriceApplyDiscount(price, pnum, pden) ==
  IF ~IsNaN(pnum, pden) /\ (pnum < 0 \/ pnum > 100 * pden)
    THEN [err |-> "Discount percentage must be between 0 and 100",
          val |-> NoPrice]
  ELSE IF IsNaN(pnum, pden) \/ price.amount = NaN
    THEN PriceNew(0, 0, price.currency)
  ELSE PriceScaled(price, 100 * pden - pnum, 100 * pden)

\* calculateTax(taxRate), taxRate = rnum/rden
PriceCalculateTax(price, rnum, rden) ==
  IF ~IsNaN(rnum, rden) /\ rnum < 0
    THEN [err |-> "Tax rate cannot be negative", val |-> NoPrice]
  ELSE IF IsNaN(rnum, rden) \/ price.amount = NaN
    THEN PriceNew(0, 0, price.currency)
  ELSE PriceScaled(price, 100 * rden + rnum, 100 * rden)

PriceToPrimitives(price) ==
  [amount |-> price.amount, currency |-> price.currency]

\* equals(other): === on the amounts, so NaN equals nothing
PriceEquals(this, other) ==
  /\ this.amount # NaN
  /\ this.amount = other.amount
  /\ this.currency = other.currency

\* isGreaterThan(other)
PriceIsGreaterThan(this, other) ==
  IF this.currency # other.currency
    THEN [err |-> "Cannot compare prices with different currencies",
          val |-> FALSE]
  ELSE [err |-> "none",
        val |-> this.amount # NaN /\ other.amount # NaN /\
                this.amount > other.amount]

\* isLessThan(other)
PriceIsLessThan(this, other) ==
  IF this.currency # other.currency
    THEN [err |-> "Cannot compare prices with different currencies",
          val |-> FALSE]
  ELSE [err |-> "none",
        val |-> this.amount # NaN /\ other.amount # NaN /\
                this.amount < other.amount]

PriceArithmetic == {"add", "multiply", "applyDiscount", "calculateTax"}

PriceComparisons == {"equals", "isGreaterThan", "isLessThan"}

\* what the method op of the instance this returns or throws for arg
PriceResult(op, this, arg) ==
  CASE op = "add" -> PriceAdd(this, arg)
    [] op = "multiply" -> PriceMultiply(this, arg.num, arg.den)
    [] op = "applyDiscount" -> PriceApplyDiscount(this, arg.num, arg.den)
    [] op = "calculateTax" -> PriceCalculateTax(this, arg.num, arg.den)
    [] op = "equals" -> [err |-> "none", val |-> PriceEquals(this, arg)]
    [] op = "isGreaterThan" -> PriceIsGreaterThan(this, arg)
    [] op = "isLessThan" -> PriceIsLessThan(this, arg)
    [] op = "toPrimitives" -> [err |-> "none", val |-> PriceToPrimitives(this)]

\* add that accumulates into the receiver and returns it
PriceMethod_AddInPlace(op, this, arg) ==
  LET r == PriceResult(op, this, arg)
  IN  IF op = "add" /\ r.err = "none"
        THEN [err |-> r.err, val |-> r.val, this |-> r.val, arg |-> arg,
              fresh |-> FALSE]
        ELSE [err |-> r.err, val |-> r.val, this |-> this, arg |-> arg,
              fresh |-> r.err = "none" /\ op \in PriceArithmetic]

\* a call of the method op on the instance this: its outcome, the fields of
\* the receiver and of the argument when it returns or throws (the fields are
\* readonly and no method assigns them), and whether the value returned is an
\* instance the call constructed (the arithmetic returns Price.create(...))
PriceMethod(op, this, arg) ==
  LET r == PriceResult(op, this, arg)
  IN  [err |-> r.err, val |-> r.val, this |-> this, arg |-> arg,
       fresh |-> r.err = "none" /\ op \in PriceArithmetic]

\* ------------------------------------------------------------------------
\* Optional values (a TypeScript `x?: T`): None is undefined, Some(v) is v
\* ------------------------------------------------------------------------
None == <<>>

Some(v) == <<v>>

\* ------------------------------------------------------------------------
\* Product (entity)
\* ------------------------------------------------------------------------
MaxNameLen == 100

MaxDescLen == 500

MinSkuLen == 3

NoProduct ==
  [id |-> <<>>, name |-> <<>>, description |-> <<>>, price |-> NoPrice,
   stock |-> 0, sku |-> <<>>, category |-> <<>>, images |-> 0,
   isActive |-> FALSE, createdAt |-> 0, updatedAt |-> 0]

\* validateProps: the message of the first failing rule, or "none".
\* Rule 8 (price instanceof Price) cannot fail: every price handed to the
\* entity is an instance built by the Price constructor.
validateProps(props) ==
  IF Len(props.name) = 0 \/ Len(Trim(props.name)) = 0
    THEN "Product name cannot be empty"
  ELSE IF Len(props.name) > MaxNameLen
    THEN "Product name cannot exceed 100 characters"
  ELSE IF Len(props.description) > MaxDescLen
    THEN "Description cannot exceed 500 characters"
  ELSE IF props.stock < 0
    THEN "Stock cannot be negative"
  ELSE IF Len(props.sku) = 0 \/ Len(Trim(props.sku)) = 0
    THEN "SKU is required"
  ELSE IF Len(props.sku) < MinSkuLen
    THEN "SKU must be at least 3 characters"
  ELSE IF Len(props.category) = 0 \/ Len(Trim(props.category)) = 0
    THEN "Category is required"
  ELSE "none"

\* private constructor(props).  generated is the value generateId() returns,
\* t the value of new Date(), emptyArr the address of the fresh [] literal.
ProductNew(props, generated, t, emptyArr) ==
  LET e == validateProps(props)
  IN  IF e # "none" THEN [err |-> e, val |-> NoProduct]
      ELSE [err |-> "none",
            val |-> [id |-> IF props.id = None \/ props.id[1] = <<>>
                              THEN generated ELSE props.id[1],
                     name |-> props.name,
                     description |-> props.description,
                     price |-> props.price,
                     stock |-> props.stock,
                     sku |-> props.sku,
                     category |-> props.category,
                     images |-> IF props.images = None
                                  THEN emptyArr ELSE props.images[1],
                     isActive |-> IF props.isActive # None
                                    THEN props.isActive[1] ELSE TRUE,
                     createdAt |-> IF props.createdAt = None
                                     THEN t ELSE props.createdAt[1],
                     updatedAt |-> IF props.updatedAt = None
                                     THEN t ELSE props.updatedAt[1]]]

\* static create(props): new Product({...props, id: undefined})
ProductCreate(props, generated, t, emptyArr) ==
  ProductNew([props EXCEPT !.id = None], generated, t, emptyArr)

\* static reconstruct(props)
ProductReconstruct(props, generated, t, emptyArr) ==
  ProductNew(props, generated, t, emptyArr)

validateActiveProduct(p, action) ==
  IF ~p.isActive THEN "Cannot " \o action \o " for inactive product"
  ELSE "none"

\* updateTimestamp that resets createdAt as well
updateTimestamp_ResetsCreatedAt(p, t) ==
  [p EXCEPT !.updatedAt = t, !.createdAt = t]

updateTimestamp(p, t) == [p EXCEPT !.updatedAt = t]

\* reduceStock without the stock check
reduceStock_NoStockCheck(p, quantity, t) ==
  LET a == validateActiveProduct(p, "reduce stock")
  IN  IF a # "none" THEN [err |-> a, val |-> p]
      ELSE IF quantity <= 0
        THEN [err |-> "Quantity must be positive", val |-> p]
      ELSE [err |-> "none",
            val |-> updateTimestamp([p EXCEPT !.stock = @ - quantity], t)]

\* reduceStock checking the quantity before the active flag
reduceStock_QuantityFirst(p, quantity, t) ==
  IF quantity <= 0
    THEN [err |-> "Quantity must be positive", val |-> p]
  ELSE IF validateActiveProduct(p, "reduce stock") # "none"
    THEN [err |-> validateActiveProduct(p, "reduce stock"), val |-> p]
  ELSE IF p.stock < quantity
    THEN [err |-> "Insufficient stock", val |-> p]
  ELSE [err |-> "none",
        val |-> updateTimestamp([p EXCEPT !.stock = @ - quantity], t)]

\* reduceStock that touches updatedAt before it checks the stock
reduceStock_StampsFirst(p, quantity, t) ==
  LET a == validateActiveProduct(p, "reduce stock")
  IN  IF a # "none" THEN [err |-> a, val |-> p]
      ELSE IF quantity <= 0
        THEN [err |-> "Quantity must be positive", val |-> p]
      ELSE IF p.stock < quantity
        THEN [err |-> "Insufficient stock", val |-> updateTimestamp(p, t)]
      ELSE [err |-> "none",
            val |-> updateTimestamp([p EXCEPT !.stock = @ - quantity], t)]

reduceStock(p, quantity, t) ==
  LET a == validateActiveProduct(p, "reduce stock")
  IN  IF a # "none" THEN [err |-> a, val |-> p]
      ELSE IF quantity <= 0
        THEN [err |-> "Quantity must be positive", val |-> p]
      ELSE IF p.stock < quantity
        THEN [err |-> "Insufficient stock", val |-> p]
      ELSE [err |-> "none",
            val |-> updateTimestamp([p EXCEPT !.stock = @ - quantity], t)]

\* increaseStock that requires an active Product, as reduceStock does
increaseStock_ActiveOnly(p, quantity, t) ==
  IF validateActiveProduct(p, "increase stock") # "none"
    THEN [err |-> validateActiveProduct(p, "increase stock"), val |-> p]
  ELSE IF quantity <= 0
    THEN [err |-> "Quantity must be positive", val |-> p]
  ELSE [err |-> "none",
        val |-> updateTimestamp([p EXCEPT !.stock = @ + quantity], t)]

increaseStock(p, quantity, t) ==
  IF quantity <= 0
    THEN [err |-> "Quantity must be positive", val |-> p]
    ELSE [err |-> "none",
          val |-> updateTimestamp([p EXCEPT !.stock = @ + quantity], t)]

\* updatePrice without the active check
updatePrice_NoActiveCheck(p, newPrice, t) ==
  [err |-> "none", val |-> updateTimestamp([p EXCEPT !.price = newPrice], t)]

updatePrice(p, newPrice, t) ==
  LET a == validateActiveProduct(p, "update price")
  IN  IF a # "none" THEN [err |-> a, val |-> p]
      ELSE [err |-> "none",
            val |-> updateTimestamp([p EXCEPT !.price = newPrice], t)]

updateInfo(p, name, description, category, t) ==
  IF Len(name) = 0 \/ Len(Trim(name)) = 0
    THEN [err |-> "Name cannot be empty", val |-> p]
  ELSE IF Len(name) > MaxNameLen
    THEN [err |-> "Name cannot exceed 100 characters", val |-> p]
  ELSE [err |-> "none",
        val |-> updateTimestamp([p EXCEPT !.name = name,
                                          !.description = description,
                                          !.category = category], t)]

\* activate that flips the flag
activate_Toggle(p, t) == updateTimestamp([p EXCEPT !.isActive = ~@], t)

activate(p, t) == updateTimestamp([p EXCEPT !.isActive = TRUE], t)

\* deactivate that also empties the stock
deactivate_ClearsStock(p, t) ==
  updateTimestamp([p EXCEPT !.isActive = FALSE, !.stock = 0], t)

deactivate(p, t) == updateTimestamp([p EXCEPT !.isActive = FALSE], t)

imageExtensions ==
  {<<".", "j", "p", "g">>, <<".", "j", "p", "e", "g">>,
   <<".", "p", "n", "g">>, <<".", "g", "i", "f">>,
   <<".", "w", "e", "b", "p">>}

\* isValidImageUrl without toLowerCase
isValidImageUrl_CaseSensitive(url) ==
  \E ext \in imageExtensions : EndsWith(url, ext)

isValidImageUrl(url) ==
  \E ext \in imageExtensions : EndsWith(ToLowerCase(url), ext)

\* the contents of the array addImages assigns to this.images
addImagesValue(current, imageUrls) ==
  LET keep(url) ==
        Len(url) # 0 /\ Len(Trim(url)) > 0 /\ isValidImageUrl(url)
  IN  current \o SelectSeq(imageUrls, keep)

\* the contents of the array removeImage assigns to this.images
removeImageValue(current, imageUrl) ==
  LET keep(img) == img # imageUrl
  IN  SelectSeq(current, keep)

getInventoryValue(p) == PriceMultiply(p.price, p.stock, 1)

\* toJSON(): the fields are evaluated in order, so it throws what
\* getInventoryValue() throws; images is this.images itself
toJSON(p) ==
  LET inv == getInventoryValue(p)
  IN  IF inv.err # "none" THEN [err |-> inv.err, images |-> 0]
      ELSE [err |-> "none", images |-> p.images]

\* toPrimitives(): images is this.images itself
toPrimitives(p) ==
  [id |-> p.id, name |-> p.name, description |-> p.description,
   price |-> PriceToPrimitives(p.price), stock |-> p.stock, sku |-> p.sku,
   category |-> p.category, images |-> p.images, isActive |-> p.isActive,
   createdAt |-> p.createdAt, updatedAt |-> p.updatedAt]

\* ------------------------------------------------------------------------
\* PrismaProductRepository: conversion between rows and Products
\* ------------------------------------------------------------------------
\* toPrisma(product): the row written; h gives the contents of the arrays
toPrisma(p, h) ==
  LET primitives == toPrimitives(p)
  IN  [id |-> primitives.id, name |-> primitives.name,
       description |-> primitives.description,
       priceAmount |-> p.price.amount, priceCurrency |-> p.price.currency,
       stock |-> primitives.stock, sku |-> primitives.sku,
       category |-> primitives.category, images |-> h[primitives.images],
       isActive |-> primitives.isActive, createdAt |-> primitives.createdAt,
       updatedAt |-> primitives.updatedAt]

\* toDomain(row); arr is the address of the array that holds row.images
toDomain(row, generated, t, arr) ==
  LET pr == PriceFromPrimitives(row.priceAmount, row.priceCurrency)
  IN  IF pr.err # "none" THEN [err |-> pr.err, val |-> NoProduct]
      ELSE ProductReconstruct(
             [id |-> Some(row.id), name |-> row.name,
              description |-> row.description, price |-> pr.val,
              stock |-> row.stock, sku |-> row.sku,
              category |-> row.category, images |-> Some(arr),
              isActive |-> Some(row.isActive),
              createdAt |-> Some(row.createdAt),
              updatedAt |-> Some(row.updatedAt)],
             generated, t, arr)

\* the unique index on sku: prisma.product.upsert({where: {id}, create, update})
\* is rejected with P2002 (target sku) when another row holds the sku of data,
\* and otherwise creates or replaces the row with the id of data
PrismaUpsert(rows, data) ==
  IF \E r \in rows : r.id # data.id /\ r.sku = data.sku
    THEN [code |-> "P2002", target |-> {"sku"}, rows |-> rows]
    ELSE [code |-> "ok", target |-> {},
          rows |-> {r \in rows : r.id # data.id} \cup {data}]

\* prisma.product.findUnique({where: {id}}): the rows with that id (0 or 1)
PrismaFindUnique(rows, id) == {r \in rows : r.id = id}

\* the catch block of save: a thrown error without the code P2002
saveError_Generic(code, target) == "Failed to save product"

\* the catch block of save
saveError(code, target) ==
  IF code = "P2002" /\ "sku" \in target
    THEN "DuplicateEntityException"
    ELSE "Failed to save product"

\* save(product): the error thrown ("none" when it returns) and the rows of
\* the table afterwards
save(rows, p, h, generated, t, arr) ==
  LET prismaData == toPrisma(p, h)
      u == PrismaUpsert(rows, prismaData)
  IN  IF u.code # "ok"
        THEN [err |-> saveError(u.code, u.target), rows |-> rows]
      ELSE IF toDomain(prismaData, generated, t, arr).err # "none"
        THEN [err |-> saveError("none", {}), rows |-> u.rows]
      ELSE [err |-> "none", rows |-> u.rows]

\* findById(id): the Product of the row, or null (found = FALSE) when there
\* is no row or toDomain throws
findById(rows, id, generated, t, arr) ==
  LET found == PrismaFindUnique(rows, id)
  IN  IF found = {} THEN [found |-> FALSE, val |-> NoProduct]
      ELSE LET d == toDomain(CHOOSE r \in found : TRUE, generated, t, arr)
           IN  IF d.err # "none" THEN [found |-> FALSE, val |-> NoProduct]
               ELSE [found |-> TRUE, val |-> d.val]

\* prisma.product.delete({where: {id}}): rejected with P2025 when no row has
\* the id, and otherwise removes the row
PrismaDelete(rows, id) ==
  IF PrismaFindUnique(rows, id) = {}
    THEN [code |-> "P2025", rows |-> rows]
    ELSE [code |-> "ok", rows |-> rows \ PrismaFindUnique(rows, id)]

\* delete whose catch block swallows the error
delete_Silent(rows, id) ==
  [err |-> "none", rows |-> PrismaDelete(rows, id).rows]

\* delete(id)
delete(rows, id) ==
  LET d == PrismaDelete(rows, id)
  IN  IF d.code = "ok" THEN [err |-> "none", rows |-> d.rows]
      ELSE IF d.code = "P2025"
        THEN [err |-> "EntityNotFoundException", rows |-> d.rows]
      ELSE [err |-> "Failed to delete product", rows |-> d.rows]

\* prisma.product.update({where: {id}, data: {stock, updatedAt}}): rejected
\* with P2025 when no row has the id, and otherwise sets the two columns
PrismaUpdate(rows, id, stock, updatedAt) ==
  IF PrismaFindUnique(rows, id) = {}
    THEN [code |-> "P2025", rows |-> rows]
    ELSE [code |-> "ok",
          rows |-> {IF r.id = id
                      THEN [r EXCEPT !.stock = stock, !.updatedAt = updatedAt]
                      ELSE r : r \in rows}]

\* updateStock(productId, quantity); t is the value of new Date()
updateStock(rows, productId, quantity, t) ==
  LET u == PrismaUpdate(rows, productId, quantity, t)
  IN  IF u.code = "ok" THEN [err |-> "none", rows |-> u.rows]
      ELSE IF u.code = "P2025"
        THEN [err |-> "EntityNotFoundException", rows |-> u.rows]
      ELSE [err |-> "Failed to update stock", rows |-> u.rows]

\* this.prisma.$transaction([upsert, ...]): the upserts in order, all or none
RECURSIVE PrismaTransaction(_, _)
PrismaTransaction(rows, datas) ==
  IF datas = <<>> THEN [code |-> "ok", rows |-> rows]
  ELSE LET u == PrismaUpsert(rows, Head(datas))
       IN  IF u.code # "ok" THEN [code |-> u.code, rows |-> rows]
           ELSE PrismaTransaction(u.rows, Tail(datas))

\* saveMany(products): a failed transaction leaves the table as it was; an
\* error of toDomain is thrown after the transaction has been committed
saveMany(rows, products, h, generated, t, arr) ==
  LET prismaData == [i \in 1..Len(products) |-> toPrisma(products[i], h)]
      tx == PrismaTransaction(rows, prismaData)
  IN  IF tx.code # "ok"
        THEN [err |-> "Failed to save products", rows |-> rows]
      ELSE IF \E i \in 1..Len(prismaData) :
                toDomain(prismaData[i], generated, t, arr).err # "none"
        THEN [err |-> "Failed to save products", rows |-> tx.rows]
      ELSE [err |-> "none", rows |-> tx.rows]

\* the filter {contains: sub, mode: 'insensitive'} of Prisma
ContainsInsensitive(str, sub) ==
  \E i \in 0..(Len(str) - Len(sub)) :
    SubSeq(ToLowerCase(str), i + 1, i + Len(sub)) = ToLowerCase(sub)

\* Math.ceil(a / b) for integers a and b # 0
Ceil(a, b) == IF b > 0 THEN -((-a) \div b) ELSE -(a \div (-b))

\* the where object findAll builds from its options (prices in cents)
FindAllWhere(options) ==
  [category |-> IF options.category # None /\ options.category[1] # <<>>
                  THEN options.category ELSE None,
   isActive |-> options.isActive,
   inStock |-> options.inStock,
   gte |-> options.minPrice,
   lte |-> options.maxPrice,
   term |-> IF options.searchTerm # None /\ options.searchTerm[1] # <<>>
              THEN options.searchTerm ELSE None]

\* the row satisfies the where object
WhereMatches(r, where) ==
  /\ where.category # None => r.category = where.category[1]
  /\ where.isActive # None => r.isActive = where.isActive[1]
  /\ where.inStock # None =>
       IF where.inStock[1] THEN r.stock > 0 ELSE r.stock = 0
  /\ where.gte # None => r.priceAmount >= where.gte[1]
  /\ where.lte # None => r.priceAmount <= where.lte[1]
  /\ where.term # None =>
       \/ ContainsInsensitive(r.name, where.term[1])
       \/ ContainsInsensitive(r.description, where.term[1])
       \/ ContainsInsensitive(r.sku, where.term[1])

\* the orders orderBy: {createdAt: 'desc'} can return the matching rows in
\* (rows with the same createdAt come in any order)
Orders(rows, where) ==
  LET matching == {r \in rows : WhereMatches(r, where)}
      n == Cardinality(matching)
  IN  {o \in [1..n -> matching] :
         /\ \A i, j \in 1..n : i # j => o[i] # o[j]
         /\ \A i, j \in 1..n : i < j => o[i].createdAt >= o[j].createdAt}

\* prisma.product.findMany({where, skip, take, orderBy}) on the ordered matching
\* rows: a negative skip is rejected; take > 0 counts from the start of the
\* list and take < 0 from its end
PrismaFindMany(ordered, skip, take) ==
  LET n == Len(ordered)
  IN  IF skip < 0 THEN [code |-> "invalid", rows |-> <<>>]
      ELSE IF take >= 0
        THEN [code |-> "ok",
              rows |-> SubSeq(ordered, skip + 1,
                              IF skip + take < n THEN skip + take ELSE n)]
      ELSE [code |-> "ok",
            rows |-> SubSeq(ordered,
                            IF n - skip + take + 1 > 1
                              THEN n - skip + take + 1 ELSE 1,
                            n - skip)]

NoPage ==
  [data |-> <<>>, total |-> 0, page |-> 0, limit |-> 0, totalPages |-> 0,
   hasNextPage |-> FALSE, hasPrevPage |-> FALSE]

\* findAll(options); ordered is the order the database returns the matching
\* rows in; data is given by the ids of its Products
findAll(rows, options, ordered, generated, t, arr) ==
  LET page == IF options.page = None \/ options.page[1] = 0
                THEN 1 ELSE options.page[1]
      limit == IF options.limit = None \/ options.limit[1] = 0
                 THEN 10 ELSE options.limit[1]
      skip == (page - 1) * limit
      where == FindAllWhere(options)
      found == PrismaFindMany(ordered, skip, limit)
      total == Cardinality({r \in rows : WhereMatches(r, where)})
      totalPages == Ceil(total, limit)
  IN  IF found.code # "ok"
        THEN [err |-> "Failed to retrieve products", val |-> NoPage]
      ELSE IF \E i \in 1..Len(found.rows) :
                toDomain(found.rows[i], generated, t, arr).err # "none"
        THEN [err |-> "Failed to retrieve products", val |-> NoPage]
      ELSE [err |-> "none",
            val |-> [data |-> [i \in 1..Len(found.rows) |-> found.rows[i].id],
                     total |-> total, page |-> page, limit |-> limit,
                     totalPages |-> totalPages,
                     hasNextPage |-> page < totalPages,
                     hasPrevPage |-> page > 1]]

\* findByCategory(category, options): findAll({...options, category})
findByCategoryOptions(category, options) ==
  [options EXCEPT !.category = Some(category)]

\* search(term, options): findAll({...options, searchTerm: term})
searchOptions(term, options) ==
  [options EXCEPT !.searchTerm = Some(term)]

\* ------------------------------------------------------------------------
\* GetProductByIdUseCase and SimpleProductMapper
\* ------------------------------------------------------------------------
\* the check of the id with if (!productId): blank ids pass
executeValidate_NoTrim(productId) ==
  IF Len(productId) = 0 THEN "Product ID is required" ELSE "none"

\* step 1 of execute: if (!productId || productId.trim() === '') throw
executeValidate(productId) ==
  IF Len(productId) = 0 \/ Trim(productId) = <<>>
    THEN "Product ID is required"
    ELSE "none"

\* toResponse passing the stock and the amount in each other's place
toResponse_SwappedFields(p) ==
  [id |-> p.id, name |-> p.name, price |-> p.stock,
   currency |-> p.price.currency, stock |-> p.price.amount]

\* SimpleProductMapper.toResponse
toResponse(p) ==
  [id |-> p.id, name |-> p.name, price |-> p.price.amount,
   currency |-> p.price.currency, stock |-> p.stock]

\* ------------------------------------------------------------------------
\* Inputs
\* ------------------------------------------------------------------------
UrlJpg == <<"a", ".", "j", "p", "g">>

UrlPng == <<"B", ".", "P", "N", "G">>

UrlTxt == <<"a", ".", "t", "x", "t">>

NameA == <<"a">>

NameInputs == {<<>>, <<" ">>, NameA, Rep("n", MaxNameLen + 1)}

DescD == <<"d">>

DescInputs == {DescD, Rep("d", MaxDescLen + 1)}

CategoryC == <<"c">>

CategoryInputs == {<<>>, <<" ">>, CategoryC}

Sku1 == <<"s", "k", "1">>

Sku2 == <<"s", "k", "2">>

PriceA == PriceCreate(129999, 100, "USD").val

PriceB == PriceCreate(600000, 1, "EUR").val

Prices == {PriceA, PriceB}

IdP1 == <<"p", "1">>

IdP2 == <<"p", "2">>

IdG1 == <<"g", "1">>

Quantities == (-1)..MaxStock

\* a `number` argument: the fraction num/den, or NaN (0/0)
Num(n, d) == [num |-> n, den |-> d]

AmountInputs ==
  {Num(-1, 100), Num(0, 1), Num(1, 8), Num(1998, 100), Num(600000, 1),
   Num(MaxPrice, 1), Num(MaxPrice + 1, 1), Num(0, 0)}

CurrencyInputs == validCurrencies \cup {"XYZ", Undefined}

\* ------------------------------------------------------------------------
\* State
\* ------------------------------------------------------------------------
VARIABLES
  now,          \* the clock new Date() / Date.now() reads
  heap,         \* the contents of the arrays, by address
  last,         \* the last call: operation, argument, error message
  constructed,  \* TRUE once a factory has returned the Product
  product,      \* the fields of the Product instance
  held,         \* the array reference the caller of the entity holds
  store,        \* the rows of the product table
  local,        \* per caller of the repository, the Product it works on
  expected,     \* per id, the stock the acknowledged saves add up to
  ucPc,         \* GetProductByIdUseCase.execute: "idle" or "awaiting"
  ucId,         \* the productId execute was called with
  findCalls,    \* number of findById calls execute has made
  price1,       \* the Price instance the caller of the value object holds
  priceOps      \* number of Price operations applied to it

entityVars == <<constructed, product, held>>

repoVars == <<store, local, expected>>

ucVars == <<ucPc, ucId, findCalls>>

priceVars == <<price1, priceOps>>

vars == <<now, heap, last, entityVars, repoVars, ucVars, priceVars>>

NumAddr == 3

Addr == 1..NumAddr

NoCall == [op |-> "none", arg |-> 0, err |-> "none"]

HeldAddrs(h) == {h[i].addr : i \in 1..Len(h)}

\* arrays nothing refers to any more are collected
Collect(h, live) == [a \in Addr |-> IF a \in live THEN h[a] ELSE <<>>]

Fresh(live) ==
  CHOOSE a \in Addr \ live : \A b \in Addr \ live : a <= b

\* the two callers that work on the table concurrently
Callers == {1, 2}

Ids == {IdP1, IdP2}

EntityInit ==
  /\ constructed = FALSE
  /\ product = NoProduct
  /\ held = None

RepoInit ==
  /\ store = {}
  /\ local = [c \in Callers |-> None]
  /\ expected = [i \in Ids |-> -1]

UcInit ==
  /\ ucPc = "idle"
  /\ ucId = <<>>
  /\ findCalls = 0

PriceInit ==
  /\ price1 = None
  /\ priceOps = 0

Init ==
  /\ now = 0
  /\ heap = [a \in Addr |-> <<>>]
  /\ last = NoCall
  /\ EntityInit
  /\ RepoInit
  /\ UcInit
  /\ PriceInit

\* ------------------------------------------------------------------------
\* Construction of the Product: Product.create(props), Product.reconstruct(props)
\* ------------------------------------------------------------------------
Construct(op, props, res) ==
  /\ IF res.err # "none"
       THEN /\ last' = [op |-> op, arg |-> 0, err |-> res.err]
            /\ UNCHANGED <<constructed, product, heap, held>>
       ELSE /\ last' = [op |-> op, arg |-> props, err |-> "none"]
            /\ constructed' = TRUE
            /\ product' = res.val
            /\ heap' = [heap EXCEPT ![res.val.images] = props.imagesValue]
            /\ held' = IF props.images = None THEN None
                       ELSE Some([origin |-> "props", addr |-> props.images[1]])
  /\ UNCHANGED <<now, repoVars, ucVars, priceVars>>

\* the props objects callers pass, drawn from the sets of in; an images array
\* the caller passes is a new array at address arr with contents imagesValue
PropsSet(in, arr) ==
  { [id |-> i, name |-> n, description |-> d, price |-> pr, stock |-> st,
     sku |-> sk, category |-> c,
     images |-> IF im = None THEN None ELSE Some(arr),
     imagesValue |-> IF im = None THEN <<>> ELSE im[1],
     isActive |-> ac, createdAt |-> ca, updatedAt |-> ua] :
      i \in in.ids, n \in in.names, d \in in.descs, pr \in in.prices,
      st \in in.stocks, sk \in in.skus, c \in in.cats,
      im \in in.imgs, ac \in in.acts, ca \in in.cas, ua \in in.uas }

EntityInputs ==
  [ids |-> {None, Some(<<>>), Some(IdP1)}, names |-> NameInputs,
   descs |-> DescInputs, prices |-> Prices, stocks |-> (-1)..MaxStock,
   skus |-> {<<>>, <<"s", "k">>, Sku1}, cats |-> CategoryInputs, imgs |-> {None},
   acts |-> {None, Some(TRUE), Some(FALSE)}, cas |-> {None, Some(0)},
   uas |-> {None} \cup {Some(t) : t \in 0..MaxTime}]

ImageInputs ==
  [ids |-> {Some(IdP1)}, names |-> {NameA}, descs |-> {DescD},
   prices |-> {PriceA}, stocks |-> {0, 1}, skus |-> {Sku1},
   cats |-> {CategoryC}, imgs |-> {None, Some(<<UrlJpg>>), Some(<<UrlTxt>>)}, acts |-> {None},
   cas |-> {None}, uas |-> {None}]

CanConstruct == ~constructed /\ last.err = "none"

Create(in) ==
  /\ CanConstruct
  /\ \E props \in PropsSet(in, Fresh(HeldAddrs(held))) :
       Construct("create", props,
                 ProductCreate(props, IdG1, now, Fresh(HeldAddrs(held))))

Reconstruct(in) ==
  /\ CanConstruct
  /\ \E props \in PropsSet(in, Fresh(HeldAddrs(held))) :
       Construct("reconstruct", props,
                 ProductReconstruct(props, IdG1, now, Fresh(HeldAddrs(held))))

\* ------------------------------------------------------------------------
\* Operations on the constructed Product
\* ------------------------------------------------------------------------
Mutate(op, arg, res) ==
  /\ constructed
  /\ product' = res.val
  /\ last' = [op |-> op, arg |-> arg, err |-> res.err]
  /\ UNCHANGED <<now, constructed, heap, held, repoVars, ucVars, priceVars>>

ReduceStockCall ==
  \E q \in Quantities : Mutate("reduceStock", q, reduceStock(product, q, now))

IncreaseStockCall ==
  \E q \in Quantities :
    /\ product.stock + q <= MaxStock
    /\ Mutate("increaseStock", q, increaseStock(product, q, now))

UpdatePriceCall ==
  \E pr \in Prices : Mutate("updatePrice", pr, updatePrice(product, pr, now))

UpdateInfoCall ==
  \E n \in NameInputs, d \in DescInputs, c \in CategoryInputs :
    Mutate("updateInfo", 0, updateInfo(product, n, d, c, now))

\* activate(); the call is recorded with the state it was made in
ActivateCall ==
  Mutate("activate", [wasActive |-> product.isActive],
         [err |-> "none", val |-> activate(product, now)])

\* deactivate(); the call is recorded with the state it was made in
DeactivateCall ==
  Mutate("deactivate", [wasActive |-> product.isActive],
         [err |-> "none", val |-> deactivate(product, now)])

\* this.images = <a new array>; this.updateTimestamp()
AssignImages(op, arg, value) ==
  LET a == Fresh({product.images} \cup HeldAddrs(held))
  IN  /\ constructed
      /\ Len(value) <= MaxImages
      /\ product' = updateTimestamp([product EXCEPT !.images = a], now)
      /\ heap' = Collect([heap EXCEPT ![a] = value], {a} \cup HeldAddrs(held))
      /\ last' = [op |-> op, arg |-> arg, err |-> "none"]
      /\ UNCHANGED <<now, constructed, held, repoVars, ucVars, priceVars>>

AddImagesCall(inputs) ==
  \E urls \in inputs :
    AssignImages("addImages", urls,
                 addImagesValue(heap[product.images], urls))

RemoveImageCall(inputs) ==
  \E url \in inputs :
    AssignImages("removeImage", url,
                 removeImageValue(heap[product.images], url))

\* the caller keeps the array a read returned
Hold(op, origin, a, h) ==
  /\ held' = Some([origin |-> origin, addr |-> a])
  /\ heap' = Collect(h, {product.images, a})
  /\ last' = [op |-> op, arg |-> 0, err |-> "none"]
  /\ UNCHANGED <<now, constructed, product, repoVars, ucVars, priceVars>>

\* getImages(): [...this.images]
GetImagesCall ==
  LET a == Fresh({product.images} \cup HeldAddrs(held))
  IN  /\ constructed
      /\ Hold("getImages", "getImages", a,
              [heap EXCEPT ![a] = heap[product.images]])

ToJSONCall ==
  LET r == toJSON(product)
  IN  /\ constructed
      /\ IF r.err # "none"
           THEN /\ last' = [op |-> "toJSON", arg |-> 0, err |-> r.err]
                /\ UNCHANGED <<now, heap, entityVars, repoVars, ucVars, priceVars>>
           ELSE Hold("toJSON", "toJSON", r.images, heap)

ToPrimitivesCall ==
  /\ constructed
  /\ Hold("toPrimitives", "toPrimitives", toPrimitives(product).images, heap)

\* the caller mutates the array it holds: push(url) or pop()
MutateHeld ==
  /\ held # None
  /\ \/ /\ Len(heap[held[1].addr]) < MaxImages
        /\ heap' = [heap EXCEPT ![held[1].addr] = Append(@, UrlTxt)]
        /\ last' = [op |-> "push", arg |-> 0, err |-> "none"]
     \/ /\ heap[held[1].addr] # <<>>
        /\ heap' = [heap EXCEPT ![held[1].addr] =
                      SubSeq(@, 1, Len(@) - 1)]
        /\ last' = [op |-> "pop", arg |-> 0, err |-> "none"]
  /\ UNCHANGED <<now, entityVars, repoVars, ucVars, priceVars>>

Tick ==
  /\ now < MaxTime
  /\ now' = now + 1
  /\ last' = [op |-> "tick", arg |-> 0, err |-> "none"]
  /\ UNCHANGED <<heap, entityVars, repoVars, ucVars, priceVars>>

Next ==
  \/ Create(EntityInputs)
  \/ Reconstruct(EntityInputs)
  \/ ReduceStockCall
  \/ IncreaseStockCall
  \/ UpdatePriceCall
  \/ UpdateInfoCall
  \/ ActivateCall
  \/ DeactivateCall
  \/ AddImagesCall({<<UrlJpg, UrlTxt>>})
  \/ RemoveImageCall({UrlJpg})
  \/ Tick

Spec == Init /\ [][Next]_vars

\* the Product with the callers that keep and mutate the arrays they passed
\* in or were handed
ImagesNext ==
  \/ Create(ImageInputs)
  \/ Reconstruct(ImageInputs)
  \/ AddImagesCall({<<UrlJpg, UrlTxt>>, <<<<>>, <<" ">>, UrlPng>>})
  \/ RemoveImageCall({UrlJpg, UrlPng})
  \/ GetImagesCall
  \/ ToJSONCall
  \/ ToPrimitivesCall
  \/ MutateHeld

ImagesSpec == Init /\ [][ImagesNext]_vars

\* ------------------------------------------------------------------------
\* Callers of the repository.  Each caller either builds a Product and saves
\* it, or runs ProductService.updateStock: findById, reduceStock, save, with
\* the other caller's steps interleaved at the awaits.
\* ------------------------------------------------------------------------
RepoFrame == UNCHANGED <<now, entityVars, ucVars, priceVars>>

\* the caller builds a Product (array of images at address c)
NewProduct(c) ==
  /\ local[c] = None
  /\ \E id \in Ids, sku \in {Sku1, Sku2} :
       LET props == [id |-> Some(id), name |-> NameA, description |-> DescD,
                     price |-> PriceA, stock |-> MaxStock, sku |-> sku,
                     category |-> CategoryC, images |-> Some(c),
                     isActive |-> None, createdAt |-> None,
                     updatedAt |-> None]
           res == ProductReconstruct(props, IdG1, now, c)
       IN  /\ res.err = "none"
           /\ local' = [local EXCEPT ![c] =
                Some([p |-> res.val, origin |-> "new", reduced |-> 0])]
           /\ heap' = [heap EXCEPT ![c] = <<>>]
           /\ last' = [op |-> "new", arg |-> id, err |-> "none"]
  /\ UNCHANGED <<store, expected>>
  /\ RepoFrame

\* const product = await this.productRepository.findById(productId)
FindById(c) ==
  /\ local[c] = None
  /\ \E id \in Ids :
       LET r == findById(store, id, IdG1, now, c)
       IN  IF r.found
             THEN /\ local' = [local EXCEPT ![c] =
                       Some([p |-> r.val, origin |-> "loaded", reduced |-> 0])]
                  /\ heap' = [heap EXCEPT ![c] =
                       (CHOOSE row \in PrismaFindUnique(store, id) : TRUE).images]
                  /\ last' = [op |-> "findById", arg |-> id, err |-> "none"]
             ELSE /\ last' = [op |-> "findById", arg |-> id, err |-> "null"]
                  /\ UNCHANGED <<local, heap>>
  /\ UNCHANGED <<store, expected>>
  /\ RepoFrame

\* product.reduceStock(quantity) on the loaded Product; an error ends the flow
LocalReduceStock(c) ==
  /\ local[c] # None
  /\ local[c][1].origin = "loaded"
  /\ local[c][1].reduced = 0
  /\ \E q \in 1..MaxStock :
       LET r == reduceStock(local[c][1].p, q, now)
       IN  /\ local' = [local EXCEPT ![c] =
                IF r.err # "none" THEN None
                ELSE Some([p |-> r.val, origin |-> "loaded", reduced |-> q])]
           /\ last' = [op |-> "reduceStock", arg |-> q, err |-> r.err]
  /\ UNCHANGED <<heap, store, expected>>
  /\ RepoFrame

\* await this.productRepository.save(product)
Save(c) ==
  /\ local[c] # None
  /\ local[c][1].origin = "loaded" => local[c][1].reduced > 0
  /\ LET l == local[c][1]
         r == save(store, l.p, heap, IdG1, now, c)
     IN  /\ store' = r.rows
         /\ last' = [op |-> "save", arg |-> toPrisma(l.p, heap), err |-> r.err]
         /\ expected' =
              IF r.err # "none" THEN expected
              ELSE [expected EXCEPT ![l.p.id] =
                      IF l.origin = "loaded" THEN @ - l.reduced
                      ELSE l.p.stock]
  /\ local' = [local EXCEPT ![c] = None]
  /\ UNCHANGED heap
  /\ RepoFrame

RepoNext ==
  \E c \in Callers :
    \/ NewProduct(c)
    \/ FindById(c)
    \/ LocalReduceStock(c)
    \/ Save(c)

RepoSpec == Init /\ [][RepoNext]_vars

\* ------------------------------------------------------------------------
\* One caller of the repository that also deletes products, sets their stock
\* and saves batches
\* ------------------------------------------------------------------------
\* await repository.delete(id)
Delete ==
  /\ \E id \in Ids :
       LET r == delete(store, id)
       IN  /\ store' = r.rows
           /\ last' = [op |-> "delete", arg |-> id, err |-> r.err]
           /\ expected' = IF r.err = "none"
                             THEN [expected EXCEPT ![id] = -1] ELSE expected
  /\ UNCHANGED <<heap, local>>
  /\ RepoFrame

\* await repository.updateStock(productId, quantity)
UpdateStock ==
  /\ \E id \in Ids, q \in Quantities :
       LET r == updateStock(store, id, q, now)
       IN  /\ store' = r.rows
           /\ last' = [op |-> "updateStock", arg |-> [id |-> id, quantity |-> q],
                        err |-> r.err]
           /\ expected' = IF r.err = "none"
                             THEN [expected EXCEPT ![id] = q] ELSE expected
  /\ UNCHANGED <<heap, local>>
  /\ RepoFrame

\* a Product the caller builds for a batch (array of images at address a)
BatchProduct(id, sku, a) ==
  ProductReconstruct(
    [id |-> Some(id), name |-> NameA, description |-> DescD, price |-> PriceB,
     stock |-> 1, sku |-> sku, category |-> CategoryC, images |-> Some(a),
     isActive |-> None, createdAt |-> None, updatedAt |-> None],
    IdG1, now, a).val

\* await repository.saveMany([p, q]) with two Products the caller built
SaveMany ==
  /\ \E sku1 \in {Sku1, Sku2}, sku2 \in {Sku1, Sku2} :
       LET products == <<BatchProduct(IdP1, sku1, 2), BatchProduct(IdP2, sku2, 3)>>
           h == [heap EXCEPT ![2] = <<>>, ![3] = <<>>]
           r == saveMany(store, products, h, IdG1, now, 2)
       IN  /\ heap' = h
           /\ store' = r.rows
           /\ last' = [op |-> "saveMany", arg |-> <<sku1, sku2>>, err |-> r.err]
           /\ expected' = IF r.err # "none" THEN expected
                           ELSE [i \in Ids |-> 1]
  /\ UNCHANGED local
  /\ RepoFrame

CatalogNext ==
  \/ NewProduct(1)
  \/ Save(1)
  \/ Delete
  \/ UpdateStock
  \/ SaveMany

CatalogSpec == Init /\ [][CatalogNext]_vars

\* ------------------------------------------------------------------------
\* GetProductByIdUseCase.execute against the Prisma adapter
\* ------------------------------------------------------------------------
EmptyHeap == [a \in Addr |-> <<>>]

StoredRow(id, sku, stock, active) ==
  toPrisma(ProductReconstruct(
             [id |-> Some(id), name |-> NameA, description |-> DescD,
              price |-> PriceA, stock |-> stock, sku |-> sku,
              category |-> CategoryC, images |-> Some(1),
              isActive |-> Some(active), createdAt |-> Some(0),
              updatedAt |-> Some(0)], IdG1, 0, 1).val, EmptyHeap)

\* tables the saves of the callers can leave behind
UseCaseInit ==
  /\ now = 0
  /\ heap = EmptyHeap
  /\ last = NoCall
  /\ EntityInit
  /\ store \in
       { {},
         {StoredRow(IdP1, Sku1, 1, TRUE)},
         {StoredRow(IdP2, Sku1, 0, FALSE)},
         {StoredRow(IdP1, Sku1, MaxStock, TRUE),
          StoredRow(IdP2, Sku2, 0, TRUE)} }
  /\ local = [c \in Callers |-> None]
  /\ expected = [i \in Ids |-> -1]
  /\ UcInit
  /\ PriceInit

UcFrame == UNCHANGED <<now, heap, entityVars, repoVars, priceVars>>

\* execute(productId) up to its await: the validation, then the call of
\* this.productRepository.findById(productId)
ExecuteCall ==
  /\ ucPc = "idle"
  /\ \E id \in {<<>>, <<" ">>, <<" ", "\t">>, IdP1, IdP2, <<"p", "9">>,
                <<" ", "p", "1">>} :
       IF executeValidate(id) # "none"
         THEN /\ last' = [op |-> "execute", arg |-> id,
                          err |-> executeValidate(id)]
              /\ UNCHANGED ucVars
         ELSE /\ findCalls < MaxFindCalls
              /\ findCalls' = findCalls + 1
              /\ ucPc' = "awaiting"
              /\ ucId' = id
              /\ last' = [op |-> "execute", arg |-> id, err |-> "none"]
  /\ UcFrame

\* execute after the await: null is a not-found error, a Product is mapped
ExecuteResume ==
  /\ ucPc = "awaiting"
  /\ LET r == findById(store, ucId, IdG1, now, 1)
     IN  last' = IF ~r.found
                   THEN [op |-> "executeResult",
                         arg |-> [id |-> ucId, found |-> FALSE,
                                  product |-> NoProduct,
                                  response |-> NoProduct],
                         err |-> "Product not found"]
                   ELSE [op |-> "executeResult",
                         arg |-> [id |-> ucId, found |-> TRUE,
                                  product |-> r.val,
                                  response |-> toResponse(r.val)],
                         err |-> "none"]
  /\ ucPc' = "idle"
  /\ UNCHANGED <<ucId, findCalls>>
  /\ UcFrame

UseCaseNext ==
  \/ ExecuteCall
  \/ ExecuteResume

UseCaseSpec == UseCaseInit /\ [][UseCaseNext]_vars

\* the row save writes for a valid Product with these fields
QueryRow(id, sku, stock, active, category, price, createdAt) ==
  toPrisma(ProductReconstruct(
             [id |-> Some(id), name |-> NameA, description |-> DescD,
              price |-> price, stock |-> stock, sku |-> sku,
              category |-> category, images |-> Some(1),
              isActive |-> Some(active), createdAt |-> Some(createdAt),
              updatedAt |-> Some(createdAt)], IdG1, 0, 1).val, EmptyHeap)

\* tables the saves of the callers can leave behind
QueryStores ==
  { {},
    {QueryRow(IdP1, Sku1, 1, TRUE, CategoryC, PriceA, 0)},
    {QueryRow(IdP1, Sku1, 0, TRUE, CategoryC, PriceA, 0),
     QueryRow(IdP2, Sku2, 1, FALSE, <<"e">>, PriceB, 0)},
    {QueryRow(IdP1, Sku1, 1, TRUE, CategoryC, PriceA, 0),
     QueryRow(IdP2, Sku2, 1, TRUE, CategoryC, PriceB, 1),
     QueryRow(<<"p", "3">>, <<"s", "k", "3">>, 0, TRUE, CategoryC, PriceA,
              1)} }

QueryInit ==
  /\ now = 0
  /\ heap = EmptyHeap
  /\ last = NoCall
  /\ EntityInit
  /\ store \in QueryStores
  /\ local = [c \in Callers |-> None]
  /\ expected = [i \in Ids |-> -1]
  /\ UcInit
  /\ PriceInit

PageInputs == {None, Some(0), Some(1), Some(2), Some(3)}

LimitInputs == {None, Some(1), Some(2), Some(-1)}

NoFilter ==
  [category |-> None, minPrice |-> None, maxPrice |-> None, inStock |-> None,
   isActive |-> None, searchTerm |-> None]

\* the filters of the calls: none, products in stock, cheap products, empty
\* strings
FilterInputs ==
  {NoFilter,
   [NoFilter EXCEPT !.inStock = Some(TRUE), !.isActive = Some(TRUE)],
   [NoFilter EXCEPT !.inStock = Some(FALSE)],
   [NoFilter EXCEPT !.minPrice = Some(0), !.maxPrice = Some(PriceA.amount),
                    !.category = Some(<<>>), !.searchTerm = Some(<<>>)]}

\* the options object: the filters with a page and a limit
Options(filter, page, limit) ==
  [page |-> page, limit |-> limit, category |-> filter.category,
   minPrice |-> filter.minPrice, maxPrice |-> filter.maxPrice,
   inStock |-> filter.inStock, isActive |-> filter.isActive,
   searchTerm |-> filter.searchTerm]

\* a read of a page: the call is recorded with its options and its result
FindPage(op, options) ==
  /\ \E ordered \in Orders(store, FindAllWhere(options)) :
       LET r == findAll(store, options, ordered, IdG1, now, 1)
       IN  last' = [op |-> op, arg |-> [options |-> options, result |-> r.val],
                    err |-> r.err]
  /\ UNCHANGED <<heap, repoVars>>
  /\ RepoFrame

\* await repository.findAll(options)
FindAll ==
  \E f \in FilterInputs, page \in PageInputs, limit \in LimitInputs :
    FindPage("findAll", Options(f, page, limit))

\* await repository.findByCategory(category, options)
FindByCategory ==
  \E page \in PageInputs, limit \in LimitInputs :
    FindPage("findByCategory",
             findByCategoryOptions(CategoryC, Options(NoFilter, page, limit)))

\* await repository.search(term, options)
Search ==
  \E page \in PageInputs, limit \in LimitInputs :
    FindPage("search",
             searchOptions(<<"K", "2">>, Options(NoFilter, page, limit)))

QueryNext ==
  \/ FindAll
  \/ FindByCategory
  \/ Search

QuerySpec == QueryInit /\ [][QueryNext]_vars

\* ------------------------------------------------------------------------
\* The Price value object: a caller builds a Price with a factory and applies
\* the operations to it, keeping the instance each one returns
\* ------------------------------------------------------------------------
PriceFrame == UNCHANGED <<now, heap, entityVars, repoVars, ucVars>>

\* the Prices Price.create returns for the inputs
CreatedPrices ==
  {r.val : r \in {x \in {PriceCreate(a.num, a.den, c) :
                            a \in AmountInputs, c \in CurrencyInputs} :
                    x.err = "none"}}

\* the caller keeps the instance res holds, if the call did not throw
PriceCall(op, arg, res) ==
  /\ priceOps < MaxPriceOps
  /\ priceOps' = priceOps + 1
  /\ price1' = IF res.err = "none" THEN Some(res.val) ELSE price1
  /\ last' = [op |-> op, arg |-> arg, err |-> res.err]
  /\ PriceFrame

PriceCreateCall ==
  \E a \in AmountInputs, c \in CurrencyInputs :
    PriceCall("Price.create", [amount |-> a, currency |-> c],
              PriceCreate(a.num, a.den, c))

PriceFromPrimitivesCall ==
  \E p \in CreatedPrices :
    PriceCall("Price.fromPrimitives", PriceToPrimitives(p),
              PriceFromPrimitives(PriceToPrimitives(p).amount,
                                  PriceToPrimitives(p).currency))

\* a method call on the instance the caller holds; the caller goes on with
\* the instance an arithmetic operation returned, else with the receiver
PriceMethodCall(op, arg, argRecord) ==
  /\ price1 # None
  /\ priceOps < MaxPriceOps
  /\ priceOps' = priceOps + 1
  /\ LET out == PriceMethod(op, price1[1], arg)
     IN  /\ price1' = IF out.fresh THEN Some(out.val) ELSE Some(out.this)
         /\ last' = [op |-> op,
                     arg |-> argRecord @@
                             [this |-> price1[1],
                              after |-> [this |-> out.this, arg |-> out.arg,
                                         fresh |-> out.fresh,
                                         val |-> out.val]],
                     err |-> out.err]
  /\ PriceFrame

PriceAddCall ==
  \E other \in CreatedPrices :
    PriceMethodCall("add", other, [other |-> other])

PriceMultiplyCall ==
  \E f \in {Num(-1, 1), Num(0, 1), Num(2, 1), Num(0, 0)} :
    PriceMethodCall("multiply", f, [factor |-> f])

PriceApplyDiscountCall ==
  \E pc \in {Num(-1, 1), Num(0, 1), Num(10, 1), Num(100, 1), Num(101, 1),
             Num(0, 0)} :
    PriceMethodCall("applyDiscount", pc, [percentage |-> pc])

PriceCalculateTaxCall ==
  \E r \in {Num(-1, 1), Num(0, 1), Num(100, 1), Num(0, 0)} :
    PriceMethodCall("calculateTax", r, [taxRate |-> r])

PriceCompareCall ==
  \E op \in PriceComparisons, other \in CreatedPrices :
    PriceMethodCall(op, other, [other |-> other])

PriceToPrimitivesCall ==
  PriceMethodCall("toPrimitives", None, [other |-> None])

PriceNext ==
  \/ PriceCreateCall
  \/ PriceFromPrimitivesCall
  \/ PriceAddCall
  \/ PriceMultiplyCall
  \/ PriceApplyDiscountCall
  \/ PriceCalculateTaxCall
  \/ PriceCompareCall
  \/ PriceToPrimitivesCall

PriceSpec == Init /\ [][PriceNext]_vars

\* ------------------------------------------------------------------------
\* Error kinds of the messages the entity throws
\* ------------------------------------------------------------------------
InactiveProductError ==
  {"Cannot reduce stock for inactive product",
   "Cannot update price for inactive product"}

ValidationError ==
  {"Quantity must be positive", "Name cannot be empty",
   "Name cannot exceed 100 characters"}

InsufficientStockError == {"Insufficient stock"}

\* ------------------------------------------------------------------------
\* Properties of the Product entity
\* ------------------------------------------------------------------------

\* C1: in every state reached from create or reconstruct by any sequence of
\* successful or failing operations, the stock of the Product is not negative.
C1_StockNeverNegative == constructed => product.stock >= 0

C1_Witness ==
  /\ constructed
  /\ last.op = "reduceStock" /\ last.err = "none"
  /\ product.stock = 0

\* C2: reduceStock(quantity) fails with InactiveProductError when the Product
\* is not active, else with ValidationError when quantity <= 0, else with
\* InsufficientStockError when stock < quantity, and else succeeds and takes
\* exactly quantity from the stock; a failing call leaves the Product alone.
C2_ReduceStockOrder ==
  [][last'.op = "reduceStock" =>
       LET q == last'.arg
       IN  IF ~product.isActive
             THEN last'.err \in InactiveProductError /\ product' = product
           ELSE IF q <= 0
             THEN last'.err \in ValidationError /\ product' = product
           ELSE IF product.stock < q
             THEN last'.err \in InsufficientStockError /\ product' = product
           ELSE /\ last'.err = "none"
                /\ product'.stock = product.stock - q
                /\ (q = product.stock => product'.stock = 0)]_vars

C2_Witness ==
  /\ constructed /\ product.isActive /\ product.stock = 0
  /\ last.op = "reduceStock" /\ last.arg > 0
  /\ last.err \in InsufficientStockError

\* C3: while the Product is inactive every reduceStock and updatePrice call
\* fails with InactiveProductError, its stock does not decrease and its price
\* does not change; on an active Product updatePrice succeeds and reduceStock
\* succeeds for 0 < quantity <= stock.
C3_InactiveRejects ==
  [][/\ (constructed /\ ~product.isActive) =>
          /\ last'.op \in {"reduceStock", "updatePrice"} =>
               last'.err \in InactiveProductError
          /\ product'.stock >= product.stock
          /\ product'.price = product.price
     /\ (constructed /\ product.isActive) =>
          /\ last'.op = "updatePrice" =>
               last'.err = "none" /\ product'.price = last'.arg
          /\ (last'.op = "reduceStock" /\ last'.arg > 0
                /\ last'.arg <= product.stock) =>
               last'.err = "none"]_vars

C3_Witness ==
  /\ constructed /\ ~product.isActive
  /\ last.op = "updatePrice" /\ last.err \in InactiveProductError

\* C5: in every reachable state the name has 1 to 100 characters and is not
\* blank, the description has at most 500 characters and the category is a
\* non-empty, non-blank string.
C5_InfoInvariant ==
  constructed =>
    /\ Len(product.name) >= 1 /\ Len(product.name) <= MaxNameLen
    /\ Trim(product.name) # <<>>
    /\ Len(product.description) <= MaxDescLen
    /\ Len(product.category) >= 1 /\ Trim(product.category) # <<>>

\* C6: getInventoryValue() returns, for every reachable stock including 0, a
\* Price in the currency of the product whose amount is price times stock.
C6_InventoryValue ==
  constructed =>
    /\ getInventoryValue(product).err = "none"
    /\ getInventoryValue(product).val =
         [amount |-> product.price.amount * product.stock,
          currency |-> product.price.currency]

\* C7: rebuilding a reachable Product from the row toPrisma writes succeeds
\* and yields a Product with the same id, name, description, price, stock,
\* sku, category, images, isActive, createdAt and updatedAt.
C7_RoundTrip ==
  constructed =>
    LET row == toPrisma(product, heap)
        r == toDomain(row, IdP2, MaxTime + 1, product.images)
    IN  /\ r.err = "none"
        /\ r.val = product
        /\ row.images = heap[product.images]

\* C8: the arrays getImages(), toJSON() and toPrimitives() return are copies:
\* mutating one of them does not change what getImages() returns afterwards.
C8_NoLeakedImages ==
  [][(last'.op \in {"push", "pop"} /\ held # None /\
      held[1].origin \in {"getImages", "toJSON", "toPrimitives"}) =>
       heap'[product'.images] = heap[product.images]]_vars

\* C15: Product.create, for any props it accepts, returns a Product with a
\* freshly generated id and with createdAt = updatedAt = the time of the call.
C15_CreateFresh ==
  [][(last'.op = "create" /\ last'.err = "none") =>
       /\ product'.id = IdG1
       /\ product'.createdAt = now
       /\ product'.updatedAt = now]_vars

\* C16: Product.reconstruct, for any props that pass validation, returns a
\* Product with the supplied id, createdAt, updatedAt and isActive flag, and
\* never puts a generated id, the current time or the default Active state in
\* the place of a supplied value.
C16_ReconstructPreserves ==
  [][(last'.op = "reconstruct" /\ last'.err = "none") =>
       LET props == last'.arg
       IN  /\ props.id # None => product'.id = props.id[1]
           /\ props.createdAt # None => product'.createdAt = props.createdAt[1]
           /\ props.updatedAt # None => product'.updatedAt = props.updatedAt[1]
           /\ props.isActive # None => product'.isActive = props.isActive[1]
    ]_vars

\* C17: over any sequence of operations on a Product obtained by create or by
\* reconstruct with any supplied timestamps, updatedAt never moves backwards.
C17_UpdatedAtMonotone ==
  [][(constructed /\ constructed') =>
       product'.updatedAt >= product.updatedAt]_vars

\* C18: activate() and deactivate() never fail; activate() leaves the Product
\* active and deactivate() leaves it inactive; neither changes a field other
\* than isActive and updatedAt, and called in the state it leads to it changes
\* no field other than updatedAt.
C18_ActivateIdempotent ==
  [][last'.op \in {"activate", "deactivate"} =>
       /\ last'.err = "none"
       /\ product'.isActive = (last'.op = "activate")
       /\ [product' EXCEPT !.updatedAt = product.updatedAt,
                           !.isActive = product.isActive] = product
       /\ product.isActive = (last'.op = "activate") =>
            [product' EXCEPT !.updatedAt = product.updatedAt] = product
       /\ heap' = heap]_vars

C18_Witness ==
  /\ constructed
  /\ last.op = "activate" /\ last.arg.wasActive
  /\ product.isActive
  /\ product.updatedAt > product.createdAt

\* C19: increaseStock(quantity), on an active and on an inactive Product alike,
\* fails with ValidationError when quantity <= 0 and otherwise adds exactly
\* quantity to the stock.
C19_IncreaseStock ==
  [][last'.op = "increaseStock" =>
       LET q == last'.arg
       IN  IF q <= 0
             THEN last'.err \in ValidationError /\ product' = product
             ELSE /\ last'.err = "none"
                  /\ product'.stock = product.stock + q
                  /\ [product' EXCEPT !.stock = product.stock,
                                      !.updatedAt = product.updatedAt]
                       = product]_vars

C19_Witness ==
  /\ constructed /\ ~product.isActive
  /\ last.op = "increaseStock" /\ last.arg > 0 /\ last.err = "none"
  /\ product.stock = MaxStock

\* the URLs of urls that satisfy keep, in their order
RECURSIVE KeptUrls(_, _)
KeptUrls(urls, kept) ==
  IF urls = <<>> THEN <<>>
  ELSE (IF Head(urls) \in kept THEN <<Head(urls)>> ELSE <<>>)
         \o KeptUrls(Tail(urls), kept)

Range(f) == {f[i] : i \in DOMAIN f}

\* C20 as stated: addImages(urls) never fails, and the image list afterwards
\* is the previous list followed by exactly the input URLs that are non-empty
\* and end in .jpg, .jpeg, .png, .gif or .webp, in their input order.
C20_AddImagesFilter ==
  [][last'.op = "addImages" =>
       LET urls == last'.arg
           kept == {u \in Range(urls) :
                      Len(u) > 0 /\ \E ext \in imageExtensions : EndsWith(u, ext)}
       IN  /\ last'.err = "none"
           /\ heap'[product'.images] =
                heap[product.images] \o KeptUrls(urls, kept)]_vars

\* C20 as amended: addImages(urls) never fails, and the image list afterwards
\* is the previous list followed by exactly the input URLs that are non-empty
\* and end, letter case ignored, in .jpg, .jpeg, .png, .gif or .webp, in
\* their input order.
C20_AddImagesFilterAnyCase ==
  [][last'.op = "addImages" =>
       LET urls == last'.arg
           kept == {u \in Range(urls) :
                      Len(u) > 0 /\ \E ext \in imageExtensions :
                                      EndsWith(ToLowerCase(u), ext)}
       IN  /\ last'.err = "none"
           /\ heap'[product'.images] =
                heap[product.images] \o KeptUrls(urls, kept)]_vars

C20_Witness ==
  /\ constructed
  /\ last.op = "addImages" /\ last.arg = <<UrlJpg, UrlTxt>>
  /\ heap[product.images] = <<UrlJpg, UrlJpg>>

\* ------------------------------------------------------------------------
\* Properties of the repository adapter
\* ------------------------------------------------------------------------

\* C4: concurrent findById / reduceStock / save flows on one stored product
\* never overwrite each other's write: the stored stock reflects every save
\* that reported success.
C4_NoLostUpdate == \A r \in store : r.stock = expected[r.id]

\* C9: save is an upsert keyed by id; when a row with another id holds the
\* sku it fails with DuplicateEntityException and leaves the table unchanged,
\* so no two rows share a sku (or an id).
C9_SaveUpsert ==
  /\ [](\A r1, r2 \in store :
          (r1.sku = r2.sku \/ r1.id = r2.id) => r1 = r2)
  /\ [][last'.op = "save" =>
          LET data == last'.arg
          IN  IF \E r \in store : r.id # data.id /\ r.sku = data.sku
                THEN /\ last'.err = "DuplicateEntityException"
                     /\ store' = store
                ELSE /\ data \in store'
                     /\ \A r \in store' : r = data \/ (r \in store /\ r.id # data.id)
                     /\ \A r \in store : r.id # data.id => r \in store']_vars

C9_Witness ==
  /\ last.op = "save" /\ last.err = "DuplicateEntityException"
  /\ \E r \in store : r.sku = last.arg.sku /\ r.id # last.arg.id

\* C21: delete(id) of an id that is not stored signals EntityNotFoundException
\* and leaves the table unchanged; delete of a stored id removes exactly the
\* row of that product.
C21_DeleteNotFound ==
  [][last'.op = "delete" =>
       IF \A r \in store : r.id # last'.arg
         THEN last'.err = "EntityNotFoundException" /\ store' = store
         ELSE /\ last'.err = "none"
              /\ store' = {r \in store : r.id # last'.arg}
              /\ Cardinality(store') = Cardinality(store) - 1]_vars

C21_Witness ==
  /\ last.op = "delete" /\ last.err = "EntityNotFoundException"
  /\ store # {}
  /\ \A r \in store : r.id # last.arg

C21_WitnessRemoved ==
  /\ last.op = "delete" /\ last.err = "none"
  /\ Cardinality(store) = 1

\* C22: every result of findAll, search and findByCategory has totalPages =
\* ceil(total / limit), hasNextPage iff page < totalPages, hasPrevPage iff
\* page > 1 and at most limit products in data, where total is the number of
\* stored products that match the filters.
C22_Pagination ==
  [][(last'.op \in {"findAll", "findByCategory", "search"} /\
      last'.err = "none") =>
       LET res == last'.arg.result
           opt == last'.arg.options
       IN  /\ res.total =
                Cardinality({r \in store : WhereMatches(r, FindAllWhere(opt))})
           /\ IF res.limit > 0
                THEN /\ (res.totalPages - 1) * res.limit < res.total
                     /\ res.total <= res.totalPages * res.limit
                ELSE /\ (res.totalPages - 1) * res.limit > res.total
                     /\ res.total >= res.totalPages * res.limit
           /\ res.hasNextPage = (res.page < res.totalPages)
           /\ res.hasPrevPage = (res.page > 1)
           /\ Len(res.data) <= res.limit]_vars

\* C28: every row the adapter writes through save, saveMany or updateStock has
\* stock >= 0 and passes the validation of the Product, so findById of a stored
\* id returns the Product and never null.
C28_RowsRehydratable ==
  \A r \in store :
    /\ r.stock >= 0
    /\ findById(store, r.id, IdG1, now, 1).found

\* ------------------------------------------------------------------------
\* Properties of the use case
\* ------------------------------------------------------------------------

\* C10: execute with an empty or whitespace-only id fails with the validation
\* error and makes no findById call on that path.
C10_BlankIdNoRepositoryCall ==
  [][(last'.op = "execute" /\
      \A i \in 1..Len(last'.arg) : last'.arg[i] \in Whitespace) =>
       /\ last'.err = "Product ID is required"
       /\ findCalls' = findCalls
       /\ ucPc' = "idle"]_vars

C10_Witness ==
  /\ last.op = "execute" /\ last.arg = <<" ", "\t">>
  /\ last.err = "Product ID is required"
  /\ ucPc = "idle"

\* C11: for a non-blank id execute calls findById exactly once; when the port
\* returns null it fails with the not-found error, and otherwise it returns a
\* projection with the id, name, price amount, currency and stock of the
\* Product the port returned.
C11_ExecuteResult ==
  [][/\ (last'.op = "execute" /\
          \E i \in 1..Len(last'.arg) : last'.arg[i] \notin Whitespace) =>
           /\ last'.err = "none"
           /\ findCalls' = findCalls + 1
           /\ ucPc' = "awaiting"
     /\ last'.op = "executeResult" =>
           /\ findCalls' = findCalls
           /\ last'.arg.found = (PrismaFindUnique(store, ucId) # {})
           /\ IF ~last'.arg.found
                THEN last'.err = "Product not found"
                ELSE LET p == last'.arg.product
                         r == last'.arg.response
                     IN  /\ last'.err = "none"
                         /\ p.id = ucId
                         /\ r.id = p.id /\ r.name = p.name
                         /\ r.price = p.price.amount
                         /\ r.currency = p.price.currency
                         /\ r.stock = p.stock]_vars

C11_Witness ==
  /\ last.op = "executeResult" /\ last.err = "none"
  /\ last.arg.response.id = IdP1
  /\ last.arg.response.stock = MaxStock
  /\ last.arg.response.price = PriceA.amount
  /\ findCalls = 1

C11_WitnessNotFound ==
  /\ last.op = "executeResult" /\ last.err = "Product not found"
  /\ last.arg.id = <<" ", "p", "1">>

\* ------------------------------------------------------------------------
\* Properties of the Price value object
\* ------------------------------------------------------------------------
\* C12: Price.create(amount, currency) fails exactly when amount < 0, amount >
\* 1,000,000 or the currency is not USD, EUR or COP (USD when omitted), and
\* otherwise returns a Price whose amount is the given amount rounded half-up
\* to 2 decimal places and is >= 0.
C12_CreateRounds ==
  [][last'.op = "Price.create" =>
       LET a == last'.arg.amount
           c == IF last'.arg.currency = Undefined
                  THEN "USD" ELSE last'.arg.currency
           negative == ~IsNaN(a.num, a.den) /\ a.num < 0
           tooLarge == ~IsNaN(a.num, a.den) /\ a.num > MaxPrice * a.den
       IN  IF negative \/ tooLarge \/ c \notin {"USD", "EUR", "COP"}
             THEN /\ last'.err \in {"Price cannot be negative",
                                    "Currency is not supported",
                                    "Price cannot exceed 1,000,000"}
                  /\ price1' = price1
             ELSE /\ last'.err = "none"
                  /\ price1' # None
                  /\ price1'[1].currency = c
                  /\ price1'[1].amount # NaN
                  /\ price1'[1].amount >= 0
                  /\ 2 * a.den * price1'[1].amount <= 200 * a.num + a.den
                  /\ 200 * a.num + a.den < 2 * a.den * (price1'[1].amount + 1)
    ]_vars

\* C13: every live Price, however obtained, has an amount in [0, 1,000,000]
\* and a currency of the allowed set.
C13_PriceInRange ==
  price1 # None =>
    /\ price1[1].amount # NaN
    /\ price1[1].amount >= 0
    /\ price1[1].amount <= MaxPrice * 100
    /\ price1[1].currency \in validCurrencies

\* C14 as stated: p.add(p2) fails when the currencies differ; when they match
\* it succeeds, and p.add(p2) equals p2.add(p) by value.
C14_AddCommutative ==
  [][last'.op = "add" =>
       LET p == last'.arg.this
           p2 == last'.arg.other
       IN  IF p.currency # p2.currency
             THEN last'.err # "none"
             ELSE /\ last'.err = "none"
                  /\ PriceAdd(p2, p).err = "none"
                  /\ price1'[1] = PriceAdd(p2, p).val]_vars

\* C14 as amended: p.add(p2) fails when the currencies differ; when they match,
\* p.add(p2) and p2.add(p) have the same outcome: both fail with 'Price
\* cannot exceed 1,000,000' when the sum of the amounts exceeds 1,000,000, and
\* otherwise both succeed with the same amount and currency.
C14_AddOutcome ==
  [][last'.op = "add" =>
       LET p == last'.arg.this
           p2 == last'.arg.other
           exceeds == /\ p.amount # NaN /\ p2.amount # NaN
                      /\ p.amount + p2.amount > MaxPrice * 100
       IN  IF p.currency # p2.currency
             THEN /\ last'.err = "Cannot add prices with different currencies"
                  /\ price1' = price1
           ELSE IF exceeds
             THEN /\ last'.err = "Price cannot exceed 1,000,000"
                  /\ PriceAdd(p2, p).err = last'.err
                  /\ price1' = price1
           ELSE /\ last'.err = "none"
                /\ PriceAdd(p2, p).err = "none"
                /\ price1'[1] = PriceAdd(p2, p).val
                /\ price1'[1].currency = p.currency]_vars

C14_Witness ==
  /\ last.op = "add" /\ last.err = "none"
  /\ last.arg.this.amount > last.arg.other.amount
  /\ last.arg.other.amount > 0
  /\ price1[1].amount = last.arg.this.amount + last.arg.other.amount

\* C23: Price is immutable: add, multiply, applyDiscount, calculateTax, equals,
\* isGreaterThan, isLessThan and toPrimitives leave the receiver and the
\* argument as they were, whether they return or throw, and what the
\* arithmetic returns is a new instance.
C23_PriceImmutable ==
  [][(last'.op \in PriceArithmetic \cup PriceComparisons \cup
                     {"toPrimitives"}) =>
       /\ last'.arg.after.this = price1[1]
       /\ (last'.op \in {"add"} \cup PriceComparisons) =>
            last'.arg.after.arg = last'.arg.other
       /\ (last'.err = "none" /\ last'.op \in PriceArithmetic) =>
            /\ last'.arg.after.fresh
            /\ price1' = Some(last'.arg.after.val)
       /\ (last'.err # "none" \/ last'.op \notin PriceArithmetic) =>
            price1' = price1]_vars

C23_Witness ==
  /\ last.op = "add" /\ last.err = "none"
  /\ last.arg.other.amount > 0
  /\ price1[1].amount = last.arg.this.amount + last.arg.other.amount
  /\ last.arg.after.this = last.arg.this

C23_WitnessThrows ==
  /\ last.op = "isGreaterThan" /\ last.err # "none"
  /\ price1 = Some(last.arg.this)

\* C24: the id and createdAt of a Product are the same after every mutating
\* operation (reduceStock, increaseStock, updatePrice, updateInfo, addImages,
\* removeImage, activate, deactivate) as before it.
C24_IdentityFixed ==
  [][constructed =>
       /\ product'.id = product.id
       /\ product'.createdAt = product.createdAt]_vars

C24_Witness ==
  /\ constructed
  /\ last.op = "updateInfo" /\ last.err = "none"
  /\ product.id = IdP1
  /\ product.createdAt = 0
  /\ product.updatedAt = 1

\* C25: a reduceStock, increaseStock, updatePrice or updateInfo call that
\* throws leaves every field of the Product, updatedAt included, as it was.
C25_FailedCallChangesNothing ==
  [][(last'.op \in {"reduceStock", "increaseStock", "updatePrice",
                     "updateInfo"} /\ last'.err # "none") =>
       /\ product' = product
       /\ heap'[product'.images] = heap[product.images]]_vars

C25_Witness ==
  /\ constructed
  /\ last.op = "reduceStock" /\ last.err = "Insufficient stock"
  /\ now = 1 /\ product.updatedAt = 0
  /\ product.stock = 1 /\ last.arg = 2

\* C26: the stock changes only by successful increaseStock and reduceStock
\* calls, by exactly their quantity, so it is the initial stock plus the
\* quantities successfully increased minus those successfully reduced.
C26_StockConservation ==
  [][constructed =>
       product'.stock =
         product.stock
         + (IF last'.op = "increaseStock" /\ last'.err = "none"
              THEN last'.arg ELSE 0)
         - (IF last'.op = "reduceStock" /\ last'.err = "none"
              THEN last'.arg ELSE 0)]_vars

C26_Witness ==
  /\ constructed
  /\ last.op = "reduceStock" /\ last.err = "none" /\ last.arg = MaxStock
  /\ product.stock = 0

\* C27: toJSON() never throws for a constructed Product, whatever its stock
\* and inventory value.
C27_ToJSONTotal ==
  [][last'.op = "toJSON" => last'.err = "none"]_vars

\* C29: the images array passed to Product.create or Product.reconstruct is
\* not aliased by the Product: mutating it afterwards does not change what
\* getImages() returns.
C29_PropsNotAliased ==
  [][(last'.op \in {"push", "pop"} /\ held # None /\
      held[1].origin = "props") =>
       heap'[product'.images] = heap[product.images]]_vars

\* C30: every entry of the images of a Product is a non-empty, non-blank URL
\* that ends in a recognized image extension, whether it came from the
\* images prop or from addImages.
C30_ImagesValid ==
  constructed =>
    \A i \in 1..Len(heap[product.images]) :
      LET url == heap[product.images][i]
      IN  /\ Len(url) # 0
          /\ Len(Trim(url)) > 0
          /\ isValidImageUrl(url)

====

